---- MODULE Spec2Model ----
(***************************************************************************)
(* The URL shortener of src/base: the URL and Click tables, the two        *)
(* creation views (create_short_url, api_create_url) and the redirect view *)
(* (redirect_url), run by concurrent request workers over one database     *)
(* in autocommit mode.  Every database statement of a view is one step.    *)
(***************************************************************************)
EXTENDS Integers, Sequences, FiniteSets, TLC

\* ---------------------------------------------------------------- bounds
NumProcs == 2
MaxRequests == 4
MaxTime == 1
\* generate_short_code's `length` (6 in the source), scaled down
CodeLength == 1

Procs == 1..NumProcs

\* ---------------------------------------------------------------- strings
\* A string is a sequence of one-character strings.
http == <<"h", "t", "t", "p", ":", "/", "/">>
https == <<"h", "t", "t", "p", "s", ":", "/", "/">>

\* str.strip() removes leading and trailing whitespace
whitespace == {" ", "\t", "\n", "\r"}

RECURSIVE lstrip(_)
lstrip(s) == IF s # <<>> /\ Head(s) \in whitespace THEN lstrip(Tail(s)) ELSE s

RECURSIVE rstrip(_)
rstrip(s) ==
    IF s # <<>> /\ s[Len(s)] \in whitespace
    THEN rstrip(SubSeq(s, 1, Len(s) - 1))
    ELSE s

strip(s) == rstrip(lstrip(s))

startswith(s, prefix) ==
    /\ Len(s) >= Len(prefix)
    /\ \A i \in 1..Len(prefix) : s[i] = prefix[i]

\* views.py: "Add protocol if missing"
add_protocol_http_only(url) == IF ~startswith(url, http) THEN https \o url ELSE url

add_protocol(url) ==
    IF ~(startswith(url, http) \/ startswith(url, https))
    THEN https \o url
    ELSE url

\* int(expires_in_days): <<n>> for a decimal numeral, <<>> for ValueError
digits == {"0", "1", "2"}
digit_value(c) == CASE c = "0" -> 0 [] c = "1" -> 1 [] c = "2" -> 2

RECURSIVE int_digits(_, _)
int_digits(s, acc) ==
    IF s = <<>> THEN acc ELSE int_digits(Tail(s), 10 * acc + digit_value(Head(s)))

int(s) ==
    IF s # <<>> /\ \A i \in 1..Len(s) : s[i] \in digits
    THEN <<int_digits(s, 0)>>
    ELSE <<>>

\* ---------------------------------------------------------------- inputs
\* string.ascii_letters + string.digits, scaled down
characters == {"a", "b"}

\* every string the generator can draw: `length` characters
GeneratedCodes == [1..CodeLength -> characters]

\* two of them, for the custom codes and the redirects of the requests
CodeA == [i \in 1..CodeLength |-> "a"]
CodeB == [i \in 1..CodeLength |-> "b"]

RawURLs ==
    { <<" ">>,
      <<" ", "x">>,
      http \o <<"x">>,
      https \o <<"x", " ">>,
      <<"h", "t", "t", "p", "x">> }

CustomCodeInputs == { <<>>, CodeA, <<"c", " ">> }

\* expires_in_days left out, or no numeral
ExpiresInputs == { <<>>, <<"x">> }

\* the few inputs of the whole application's creation requests
SomeURLs == { <<" ">>, <<"x", " ">> }

SomeCustomCodes == { <<>>, CodeA }

SomeExpires == { <<>>, <<"0">> }

RedirectCodes == { CodeA, CodeB }

\* ---------------------------------------------------------------- state
VARIABLES
    urls,       \* the URL table: a sequence of rows, the row's id its index
    clicks,     \* the Click table
    now,        \* timezone.now(), in days
    pc,         \* each worker's position in the view it runs
    local,      \* each worker's request and view locals
    response,   \* the response sent last
    served      \* the requests started so far

vars == <<urls, clicks, now, pc, local, response, served>>

NoLocal ==
    [view |-> "none", raw_url |-> <<>>, original_url |-> <<>>,
     custom_code |-> <<>>, short_code |-> <<>>, code |-> <<>>,
     expires_at |-> <<>>,
     id |-> 0, click_count |-> 0]

NoResponse == [status |-> "none", short_code |-> <<>>, view |-> "none"]

Init ==
    /\ urls = <<>>
    /\ clicks = <<>>
    /\ now = 0
    /\ pc = [p \in Procs |-> "idle"]
    /\ local = [p \in Procs |-> NoLocal]
    /\ response = NoResponse
    /\ served = 0

\* ---------------------------------------------------------------- queries
\* URL.objects.filter(short_code=code).exists()
short_code_exists(code) == \E i \in DOMAIN urls : urls[i].short_code = code

\* views.py line 72: is the custom code taken?
custom_code_exists_among_active(code) ==
    \E i \in DOMAIN urls : urls[i].short_code = code /\ urls[i].is_active

custom_code_exists(code) == short_code_exists(code)

\* models.py line 42: is the drawn candidate taken?
candidate_exists(code) == short_code_exists(code)

\* short_code is unique=True: the store refuses an INSERT of a code a row has
no_unique_constraint(code) == FALSE

unique_violation(code) == short_code_exists(code)

\* get_object_or_404(URL, short_code=short_code, is_active=True)
get_object_any(short_code) ==
    {i \in DOMAIN urls : urls[i].short_code = short_code}

get_object(short_code) ==
    {i \in DOMAIN urls : urls[i].short_code = short_code /\ urls[i].is_active}

\* URL.is_expired, on the expires_at the view has read
is_expired_reversed(expires_at) ==
    IF expires_at # <<>> THEN now < expires_at[1] ELSE FALSE

is_expired(expires_at) ==
    IF expires_at # <<>> THEN now > expires_at[1] ELSE FALSE

\* ---------------------------------------------------------------- steps
\* The view returns: the worker is free again.
Respond(p, view, status, short_code) ==
    /\ pc' = [pc EXCEPT ![p] = "idle"]
    /\ local' = [local EXCEPT ![p] = NoLocal]
    /\ response' = [status |-> status, short_code |-> short_code, view |-> view]

Begin(p) ==
    /\ pc[p] = "idle"
    /\ served < MaxRequests
    /\ served' = served + 1

\* timezone.now() + timedelta(days=int(expires_in_days)), ValueError passed over
expiration(expires_in_days) ==
    IF expires_in_days # <<>> /\ int(expires_in_days) # <<>>
    THEN <<now + int(expires_in_days)[1]>>
    ELSE <<>>

\* create_short_url up to url_obj.save(): the form is read, the URL checked
\* and given its protocol, the custom code looked up, the expiry set.
create_short_url(p, method, url_field, custom_field, expires_in_days) ==
    /\ Begin(p)
    /\ UNCHANGED <<urls, clicks, now>>
    /\ LET original_url == strip(url_field)
           custom_code == strip(custom_field)
       IN  IF method # "POST"
           THEN Respond(p, "form", "Home", <<>>)
           ELSE IF original_url = <<>>
           THEN Respond(p, "form", "InvalidURL", <<>>)
           ELSE IF custom_code # <<>> /\ custom_code_exists(custom_code)
           THEN Respond(p, "form", "CodeTaken", custom_code)
           ELSE /\ local' = [local EXCEPT ![p] =
                        [NoLocal EXCEPT !.view = "form",
                                        !.raw_url = url_field,
                                        !.original_url = add_protocol(original_url),
                                        !.custom_code = custom_code,
                                        !.short_code = custom_code,
                                        !.expires_at = expiration(expires_in_days)]]
                \* URL.save: a code is generated when none is set
                /\ pc' = [pc EXCEPT ![p] =
                        IF custom_code = <<>> THEN "generate" ELSE "insert"]
                /\ UNCHANGED response

\* api_create_url up to URL.objects.create()
api_create_url(p, method, body) ==
    /\ Begin(p)
    /\ UNCHANGED <<urls, clicks, now>>
    /\ IF method # "POST"
       THEN Respond(p, "api", "MethodNotAllowed", <<>>)
       ELSE IF ~body.json
       THEN Respond(p, "api", "InvalidJSON", <<>>)
       ELSE LET original_url == strip(body.url)
            IN  IF original_url = <<>>
                THEN Respond(p, "api", "URLRequired", <<>>)
                ELSE /\ local' = [local EXCEPT ![p] =
                             [NoLocal EXCEPT !.view = "api",
                                             !.raw_url = body.url,
                                             !.original_url = add_protocol(original_url)]]
                     /\ pc' = [pc EXCEPT ![p] = "generate"]
                     /\ UNCHANGED response

\* generate_short_code, line 41: a candidate is drawn
generate_short_code(p, code) ==
    /\ pc[p] = "generate"
    /\ local' = [local EXCEPT ![p].code = code]
    /\ pc' = [pc EXCEPT ![p] = "exists"]
    /\ UNCHANGED <<urls, clicks, now, response, served>>

\* generate_short_code, lines 42-43: the candidate is returned if no row has
\* it, and the loop goes round again if one has
generate_short_code_exists(p) ==
    /\ pc[p] = "exists"
    /\ IF candidate_exists(local[p].code)
       THEN /\ local' = [local EXCEPT ![p].code = <<>>]
            /\ pc' = [pc EXCEPT ![p] = "generate"]
       ELSE /\ local' = [local EXCEPT ![p].short_code = local[p].code,
                                      ![p].code = <<>>]
            /\ pc' = [pc EXCEPT ![p] = "insert"]
    /\ UNCHANGED <<urls, clicks, now, response, served>>

\* super().save(): the INSERT, and what each view makes of its outcome
save(p) ==
    /\ pc[p] = "insert"
    /\ IF unique_violation(local[p].short_code)
       THEN \* IntegrityError, caught by `except Exception`
            /\ Respond(p, local[p].view, "Error", local[p].short_code)
            /\ UNCHANGED urls
       ELSE /\ urls' = Append(urls,
                    [short_code |-> local[p].short_code,
                     original_url |-> local[p].original_url,
                     is_active |-> TRUE,
                     expires_at |-> local[p].expires_at,
                     click_count |-> 0,
                     last_clicked |-> <<>>])
            /\ Respond(p, local[p].view, "Created", local[p].short_code)
    /\ UNCHANGED <<clicks, now, served>>

\* redirect_url, line 97: the row is read
redirect_url(p, short_code) ==
    /\ Begin(p)
    /\ UNCHANGED <<urls, clicks, now>>
    /\ IF get_object(short_code) = {}
       THEN Respond(p, "redirect", "NotFound", short_code)
       ELSE LET id == CHOOSE i \in get_object(short_code) : TRUE
            IN  /\ local' = [local EXCEPT ![p] =
                        [NoLocal EXCEPT !.view = "redirect",
                                        !.short_code = short_code,
                                        !.id = id,
                                        !.expires_at = urls[id].expires_at,
                                        !.click_count = urls[id].click_count]]
                /\ pc' = [pc EXCEPT ![p] = "record"]
                /\ UNCHANGED response

\* redirect_url, lines 99-114: the expiry check, then Click.objects.create
redirect_url_record(p) ==
    /\ pc[p] = "record"
    /\ IF is_expired(local[p].expires_at)
       THEN /\ Respond(p, "redirect", "Expired", local[p].short_code)
            /\ UNCHANGED clicks
       ELSE /\ clicks' = Append(clicks, [url |-> local[p].id, clicked_at |-> now])
            /\ pc' = [pc EXCEPT ![p] = "increment"]
            /\ UNCHANGED <<local, response>>
    /\ UNCHANGED <<urls, now, served>>

\* URL.increment_click: the count the view read, plus one, is written
increment_click(p) ==
    /\ pc[p] = "increment"
    /\ urls' = [urls EXCEPT ![local[p].id].click_count = local[p].click_count + 1,
                            ![local[p].id].last_clicked = <<now>>]
    /\ Respond(p, "redirect", "Redirect", local[p].short_code)
    /\ UNCHANGED <<clicks, now, served>>

\* an administrator clears is_active (no view does)
Deactivate(i) ==
    /\ urls[i].is_active
    /\ urls' = [urls EXCEPT ![i].is_active = FALSE]
    /\ UNCHANGED <<clicks, now, pc, local, response, served>>

\* time passes
Tick ==
    /\ now < MaxTime
    /\ now' = now + 1
    /\ UNCHANGED <<urls, clicks, pc, local, response, served>>

Methods == {"GET", "POST"}

Bodies(URLs) ==
    {[json |-> FALSE, url |-> <<>>]} \cup {[json |-> TRUE, url |-> u] : u \in URLs}

\* a worker takes a creation request
Create(p, URLs, Customs, Expires) ==
    \/ \E m \in Methods, u \in URLs, c \in Customs, d \in Expires :
          create_short_url(p, m, u, c, d)
    \/ \E m \in Methods, b \in Bodies(URLs) : api_create_url(p, m, b)

\* a worker goes on with the creation it is in
Allocate(p) ==
    \/ \E c \in GeneratedCodes : generate_short_code(p, c)
    \/ generate_short_code_exists(p)
    \/ save(p)

\* a worker takes a redirect, or goes on with the one it is in
Redirect(p) ==
    \/ \E c \in RedirectCodes : redirect_url(p, c)
    \/ redirect_url_record(p)
    \/ increment_click(p)

\* The whole application, its creation requests drawn from a few inputs.
Next ==
    \/ \E p \in Procs : Create(p, SomeURLs, SomeCustomCodes, SomeExpires)
    \/ \E p \in Procs : Allocate(p)
    \/ \E p \in Procs : Redirect(p)
    \/ \E i \in DOMAIN urls : Deactivate(i)
    \/ Tick

Spec == Init /\ [][Next]_vars

\* The creation views alone, over every input.
NextCreate ==
    \/ \E p \in Procs : Create(p, RawURLs, CustomCodeInputs, ExpiresInputs)
    \/ \E p \in Procs : Allocate(p)

SpecCreate == Init /\ [][NextCreate]_vars

\* A worker in a creation goes on with it, and its generator draws every
\* code again and again (random.choice is uniform over the whole code space).
Fairness ==
    \A p \in Procs :
        /\ WF_vars(Allocate(p))
        /\ \A c \in GeneratedCodes : SF_vars(generate_short_code(p, c))

FairSpec == Spec /\ Fairness

\* ---------------------------------------------------------------- claims
\* the Click rows of URL row i
ClicksOf(i) == Cardinality({k \in DOMAIN clicks : clicks[k].url = i})

InRedirect(p) == pc[p] \in {"record", "increment"}

\* C1: once every redirect has returned, each link's click_count is the
\* number of its Click rows: with the count 0 at creation, N completed
\* redirects leave click_count = N and exactly N Clicks, none lost.
C1_NoIncrementLost ==
    (\A p \in Procs : ~InRedirect(p)) =>
        \A i \in DOMAIN urls : urls[i].click_count = ClicksOf(i)

\* C2: no two URL rows, active or not, have the same short_code.
C2_ShortCodeUnique ==
    \A i, j \in DOMAIN urls : i # j => urls[i].short_code # urls[j].short_code

\* C2's case: an allocation made a second row beside an inactive one, and
\* the store has refused some INSERT of a taken code.
C2_Witness ==
    /\ Len(urls) >= 2
    /\ \E i \in DOMAIN urls : ~urls[i].is_active
    /\ response.status = "Error"

\* a form request with custom code c when some row, active or not, has c
TakenCustomCode(p, u, c, d) ==
    /\ create_short_url(p, "POST", u, c, d)
    /\ c # <<>>
    /\ \E i \in DOMAIN urls : urls[i].short_code = c

\* C3, as stated: a form request whose custom code is the code of a row,
\* active or not, is answered CodeTaken, and neither table changes.
C3_TakenCustomCodeAlwaysCodeTaken ==
    [][\A p \in Procs, u \in SomeURLs, c \in SomeCustomCodes, d \in SomeExpires :
          TakenCustomCode(p, u, c, d)
          => /\ response'.status = "CodeTaken"
             /\ pc'[p] = "idle"
             /\ urls' = urls
             /\ clicks' = clicks]_vars

\* C3, amended: such a request ends in that step with neither table
\* changed; it is answered CodeTaken when its URL is not empty once
\* trimmed, and with the empty-URL error when it is.
C3_TakenCustomCodeRefused ==
    [][\A p \in Procs, u \in SomeURLs, c \in SomeCustomCodes, d \in SomeExpires :
          TakenCustomCode(p, u, c, d)
          => /\ response'.status =
                    IF \A k \in DOMAIN u : u[k] = " " THEN "InvalidURL" ELSE "CodeTaken"
             /\ pc'[p] = "idle"
             /\ urls' = urls
             /\ clicks' = clicks]_vars

\* C3's case: the code refused belongs to an inactive row.
C3_Witness ==
    /\ response.status = "CodeTaken"
    /\ \E i \in DOMAIN urls :
          urls[i].short_code = response.short_code /\ ~urls[i].is_active

\* C4: a redirect for a code that no row has, or only an inactive row has,
\* is answered NotFound in that step, makes no Click and changes no row.
C4_UnknownOrInactiveNotFound ==
    [][\A p \in Procs, c \in RedirectCodes :
          ( /\ redirect_url(p, c)
            /\ \A i \in DOMAIN urls : urls[i].short_code = c => ~urls[i].is_active )
          => /\ response'.status = "NotFound"
             /\ pc'[p] = "idle"
             /\ clicks' = clicks
             /\ urls' = urls]_vars

\* C4's case: NotFound for the code of an inactive row that has been clicked.
C4_Witness ==
    /\ response.status = "NotFound"
    /\ \E i \in DOMAIN urls :
          /\ urls[i].short_code = response.short_code
          /\ ~urls[i].is_active
          /\ urls[i].click_count > 0

\* C5: a redirect that comes to its expiry check for a link whose expires_at
\* is set and before the current time is answered Expired, makes no Click
\* and changes no row.
C5_ExpiredNotRecorded ==
    [][\A p \in Procs :
          ( /\ redirect_url_record(p)
            /\ urls[local[p].id].expires_at # <<>>
            /\ urls[local[p].id].expires_at[1] < now )
          => /\ response'.status = "Expired"
             /\ pc'[p] = "idle"
             /\ clicks' = clicks
             /\ urls' = urls]_vars

\* C5's case: Expired for an active link past its expiry.
C5_Witness ==
    /\ response.status = "Expired"
    /\ \E i \in DOMAIN urls :
          /\ urls[i].short_code = response.short_code
          /\ urls[i].is_active
          /\ urls[i].expires_at # <<>>
          /\ urls[i].expires_at[1] < now

\* C6: in every state a reader can see, each link's click_count is the
\* number of its Click rows: no Click without its increment, no increment
\* without its Click.
C6_ClickAndCountTogether ==
    \A i \in DOMAIN urls : urls[i].click_count = ClicksOf(i)

\* the text between the first and the last character that is not whitespace
Trimmed(u) ==
    LET ink == {k \in DOMAIN u : u[k] \notin {" ", "\t", "\n", "\r"}}
    IN  IF ink = {} THEN <<>>
        ELSE SubSeq(u, CHOOSE k \in ink : \A m \in ink : k <= m,
                       CHOOSE k \in ink : \A m \in ink : k >= m)

HasScheme(t) ==
    \/ Len(t) >= 7 /\ SubSeq(t, 1, 7) = http
    \/ Len(t) >= 8 /\ SubSeq(t, 1, 8) = https

\* what the claim has stored for the URL field u
Stored(u) == IF HasScheme(Trimmed(u)) THEN Trimmed(u) ELSE https \o Trimmed(u)

\* the URL fields that are empty once trimmed
BlankURLs == {u \in RawURLs : Trimmed(u) = <<>>}

\* C7: a row is stored with its request's URL trimmed, as it is when it
\* starts with http:// or https:// and with https:// before it when not; a
\* request of either creation view whose URL is empty once trimmed ends in
\* that step with no row stored.
C7_TargetNormalized ==
    [][ /\ \A p \in Procs :
              (save(p) /\ Len(urls') = Len(urls) + 1)
              => urls'[Len(urls')].original_url = Stored(local[p].raw_url)
        /\ \A p \in Procs, u \in BlankURLs :
              /\ \A c \in CustomCodeInputs, d \in ExpiresInputs :
                    create_short_url(p, "POST", u, c, d)
                    => (pc'[p] = "idle" /\ urls' = urls)
              /\ api_create_url(p, "POST", [json |-> TRUE, url |-> u])
                    => (pc'[p] = "idle" /\ urls' = urls) ]_vars

\* C7's case: one row stored with https:// put before its URL, one stored
\* with its http:// URL as it was, and an empty URL just refused.
C7_Witness ==
    /\ \E i \in DOMAIN urls : urls[i].original_url = https \o <<"h", "t", "t", "p", "x">>
    /\ \E i \in DOMAIN urls : urls[i].original_url = http \o <<"x">>
    /\ response.status \in {"InvalidURL", "URLRequired"}

\* C8: no step lowers the click_count of a row.
C8_ClickCountNonDecreasing ==
    [][\A i \in DOMAIN urls : urls'[i].click_count >= urls[i].click_count]_vars

\* C9: the INSERT of a creation request with a generated code always ends
\* in a stored row: the request is never answered with an error.
C9_GeneratedCodeNeverFails ==
    [][\A p \in Procs :
          (save(p) /\ local[p].custom_code = <<>>)
          => (response'.status = "Created" /\ Len(urls') = Len(urls) + 1)]_vars

\* C10: a creation request that enters the generator comes to its end.
C10_AllocationTerminates ==
    \A p \in Procs : (pc[p] = "generate") ~> (pc[p] = "idle")

====
